---- MODULE Spec2Model ----
(***************************************************************************)
(* Test-time adaptation with a positive and a negative per-class cache     *)
(* (src/tda_runner.py): update_cache, compute_cache_logits and the         *)
(* per-sample loop of run_test_tda.                                        *)
(*                                                                         *)
(* Numbers are fixed-point integers.  A loss is an integer in 0..MaxLoss,  *)
(* MaxLoss standing for log(num_classes), the largest entropy a softmax    *)
(* over num_classes classes can have.  Thresholds, normalised entropies    *)
(* and probabilities are exact rationals [num, den] compared by cross      *)
(* multiplication.  A python list l[0], l[1], l[2] is the tuple            *)
(* <<l[1], l[2], l[3]>>; a python dict is a function whose DOMAIN is the   *)
(* set of its keys, the empty dict being << >>.                            *)
(***************************************************************************)
EXTENDS Integers, Sequences, FiniteSets

\* ------------------------------------------------------------------ bounds
NumClasses == 2
MaxLoss == 3
MaxShot == 2
MaxSamples == 3
\* entries of a cache handed to the scorer on its own
MaxEntries == 2
\* fixed-point value of the kernel weight exp(0) = 1
WeightOne == 4

\* ------------------------------------------------------- program constants
TelemetryEvery == 1000

Labels == 0 .. (NumClasses - 1)
Losses == 0 .. MaxLoss

\* ---------------------------------------------------------------- rationals
Rat(n, d) == [num |-> n, den |-> d]
RatLess(a, b) == a.num * b.den < b.num * a.den

Thresholds == {Rat(0, 1), Rat(1, 2), Rat(1, 1)}
Window(lo, hi) == [lower |-> lo, upper |-> hi]
EntropyWindows ==
    {Window(Rat(0, 1), Rat(1, 1)), Window(Rat(0, 1), Rat(1, 2)),
     Window(Rat(1, 2), Rat(1, 1)), Window(Rat(1, 2), Rat(1, 2)),
     Window(Rat(1, 1), Rat(0, 1))}
MaskWindows ==
    {Window(Rat(0, 1), Rat(1, 1)), Window(Rat(1, 2), Rat(1, 2))}

VARIABLES
    pos_cfg, neg_cfg,          \* the two configuration records of the run
    pos_enabled, neg_enabled,  \* the enable flags read from them
    pos_params, neg_params,    \* hyperparameters unpacked from them
    pos_cache, neg_cache,      \* label -> bucket (list of items)
    accuracies,                \* per-sample accuracies
    i,                         \* index of the sample being processed
    sample,                    \* the classifier's output for sample i
    final_logits,              \* adjusted logits of sample i
    pos_keys, neg_keys,        \* cache_keys stacked by the scorer for sample i
    log,                       \* telemetry records written so far
    offered_pos, offered_neg,  \* label -> losses passed to update_cache so far
    result,                    \* the value run_test_tda returns
    loss_kind,                 \* what the classifier returns as loss: "tensor" or "float"
    pc, err

vars == <<pos_cfg, neg_cfg, pos_enabled, neg_enabled, pos_params, neg_params, pos_cache, neg_cache,
          accuracies, i, sample, final_logits, pos_keys, neg_keys, log,
          offered_pos, offered_neg, result, loss_kind, pc, err>>

NoValue == "none"
\* ------------------------------------------------------------ the classifier
\* get_clip_logits and get_entropy live in utils.py.  The classifier returns
\* the five-tuple (image_features, clip_logits, loss, prob_map, pred) with
\* loss the entropy of prob_map and pred its arg-max.  An input image is
\* abstracted to the pair (pred, loss) it produces: its embedding points in
\* the direction of class pred, and its probability map gives every other
\* class loss/(NumClasses*MaxLoss), which is one-hot at loss 0 and uniform
\* at loss MaxLoss.  The sample index identifies the embedding tensor.
ProbDen == NumClasses * MaxLoss
ProbMapOf(pred, loss) ==
    [c \in Labels |->
        IF c = pred THEN Rat(ProbDen - (NumClasses - 1) * loss, ProbDen)
                    ELSE Rat(loss, ProbDen)]

get_clip_logits(idx, pred, loss) ==
    [image_features |-> [id |-> idx, vec |-> pred],
     clip_logits    |-> [c \in Labels |-> WeightOne * ProbMapOf(pred, loss)[c].num],
     loss           |-> loss,
     prob_map       |-> ProbMapOf(pred, loss),
     pred           |-> pred]

\* normalized entropy = loss / log(num_classes)
get_entropy(loss) == Rat(loss, MaxLoss)

\* ------------------------------------------------------------- update_cache
\* item[2] is the loss (python item[1]).
RECURSIVE InsertByLoss(_, _)
InsertByLoss(s, x) ==
    IF s = << >> THEN <<x>>
    ELSE IF x[2] < Head(s)[2] THEN <<x>> \o s
    ELSE <<Head(s)>> \o InsertByLoss(Tail(s), x)

RECURSIVE SortInto(_, _)
SortInto(acc, s) ==
    IF s = << >> THEN acc ELSE SortInto(InsertByLoss(acc, Head(s)), Tail(s))

sorted_skipped(bucket) == bucket

\* sorted(bucket, key=operator.itemgetter(1)): stable, ascending by loss
sorted(bucket) == SortInto(<< >>, bucket)

has_room_inclusive(bucket, shot_capacity) == Len(bucket) <= shot_capacity
has_room_always(bucket, shot_capacity) == TRUE

\* len(cache[pred]) < shot_capacity
has_room(bucket, shot_capacity) == Len(bucket) < shot_capacity

beats_last_or_ties(features_loss, bucket) == features_loss[2] <= bucket[Len(bucket)][2]
beats_first(features_loss, bucket) == features_loss[2] < bucket[1][2]

beats_last_reversed(features_loss, bucket) == features_loss[2] > bucket[Len(bucket)][2]

\* features_loss[1] < cache[pred][-1][1]
beats_last(features_loss, bucket) == features_loss[2] < bucket[Len(bucket)][2]

set_bucket_fresh(cache, pred, bucket) == [l \in {pred} |-> bucket]

\* cache[pred] = bucket
set_bucket(cache, pred, bucket) ==
    [l \in (DOMAIN cache) \cup {pred} |-> IF l = pred THEN bucket ELSE cache[l]]

update_cache_evicting(cache, pred, features_loss, shot_capacity, include_prob_map) ==
    LET item == IF ~include_prob_map THEN features_loss
                ELSE SubSeq(features_loss, 1, 2) \o <<features_loss[3]>>
    IN  IF pred \in DOMAIN cache
        THEN LET b == cache[pred]
                 b1 == IF has_room(b, shot_capacity) THEN Append(b, item)
                       ELSE IF beats_last(features_loss, b)
                            THEN SubSeq(b, 1, Len(b) - 1)
                            ELSE b
             IN  set_bucket(cache, pred, sorted(b1))
        ELSE set_bucket(cache, pred, <<item>>)

update_cache_capacity_checked(cache, pred, features_loss, shot_capacity, include_prob_map) ==
    LET item == IF ~include_prob_map THEN features_loss
                ELSE SubSeq(features_loss, 1, 2) \o <<features_loss[3]>>
    IN  IF pred \in DOMAIN cache
        THEN LET b == cache[pred]
                 b1 == IF has_room(b, shot_capacity) THEN Append(b, item)
                       ELSE IF beats_last(features_loss, b)
                            THEN [b EXCEPT ![Len(b)] = item]
                            ELSE b
             IN  set_bucket(cache, pred, sorted(b1))
        ELSE IF shot_capacity > 0 THEN set_bucket(cache, pred, <<item>>) ELSE cache

update_cache(cache, pred, features_loss, shot_capacity, include_prob_map) ==
    LET item == IF ~include_prob_map THEN features_loss
                ELSE SubSeq(features_loss, 1, 2) \o <<features_loss[3]>>
    IN  IF pred \in DOMAIN cache
        THEN LET b == cache[pred]
                 b1 == IF has_room(b, shot_capacity) THEN Append(b, item)
                       ELSE IF beats_last(features_loss, b)
                            THEN [b EXCEPT ![Len(b)] = item]
                            ELSE b
             IN  set_bucket(cache, pred, sorted(b1))
        ELSE set_bucket(cache, pred, <<item>>)
\* ----------------------------------------------------- compute_cache_logits
\* image_features @ cache_keys for unit embeddings along the class axes
affinity(image_features, key) == IF image_features.vec = key.vec THEN 1 ELSE 0

\* exp(-(beta - beta * affinity)), beta counted in units of ln 2
kernel(aff, beta) == IF aff = 1 THEN WeightOne ELSE WeightOne \div (2 ^ beta)

neg_mask_inclusive(prob_map, neg_mask_thresholds) ==
    [c \in Labels |->
        IF ~RatLess(prob_map[c], neg_mask_thresholds[1])
           /\ ~RatLess(neg_mask_thresholds[2], prob_map[c]) THEN 1 ELSE 0]

\* (cache_values > lower) & (cache_values < upper), elementwise
neg_mask(prob_map, neg_mask_thresholds) ==
    [c \in Labels |->
        IF RatLess(neg_mask_thresholds[1], prob_map[c])
           /\ RatLess(prob_map[c], neg_mask_thresholds[2]) THEN 1 ELSE 0]

one_hot_shifted(class_index) ==
    [c \in Labels |-> IF c = (class_index + 1) % NumClasses THEN 1 ELSE 0]

\* F.one_hot(class_index, num_classes)
one_hot(class_index) == [c \in Labels |-> IF c = class_index THEN 1 ELSE 0]

\* the rows (key, value) stacked by the two nested loops, labels ascending
RECURSIVE cache_rows(_, _, _)
cache_rows(cache, class_index, neg_mask_thresholds) ==
    IF class_index >= NumClasses THEN << >>
    ELSE (IF class_index \in DOMAIN cache
          THEN [k \in 1 .. Len(cache[class_index]) |->
                  [key   |-> cache[class_index][k][1],
                   value |-> IF neg_mask_thresholds # << >>
                             THEN neg_mask(cache[class_index][k][3], neg_mask_thresholds)
                             ELSE one_hot(class_index)]]
          ELSE << >>)
         \o cache_rows(cache, class_index + 1, neg_mask_thresholds)

RECURSIVE weighted_sum(_, _, _, _)
weighted_sum(rows, image_features, beta, c) ==
    IF rows = << >> THEN 0
    ELSE kernel(affinity(image_features, Head(rows).key), beta) * Head(rows).value[c]
         + weighted_sum(Tail(rows), image_features, beta, c)

RECURSIVE without_key(_, _)
without_key(rows, image_features) ==
    IF rows = << >> THEN << >>
    ELSE (IF Head(rows).key = image_features THEN << >> ELSE <<Head(rows)>>)
         \o without_key(Tail(rows), image_features)

compute_cache_logits_others(image_features, cache, alpha, beta, neg_mask_thresholds) ==
    LET rows == without_key(cache_rows(cache, 0, neg_mask_thresholds), image_features)
    IN  [raised     |-> cache_rows(cache, 0, neg_mask_thresholds) = << >>,
         cache_keys |-> [k \in 1 .. Len(rows) |-> rows[k].key],
         value  |-> [c \in Labels |->
                       alpha * weighted_sum(rows, image_features, beta, c)]]

\* neg_mask_thresholds is << >> for None (both are falsy).  torch.cat of an
\* empty list raises RuntimeError: the result then has raised = TRUE.
compute_cache_logits(image_features, cache, alpha, beta, neg_mask_thresholds) ==
    LET rows == cache_rows(cache, 0, neg_mask_thresholds)
    IN  [raised     |-> rows = << >>,
         cache_keys |-> [k \in 1 .. Len(rows) |-> rows[k].key],
         value  |-> [c \in Labels |->
                       alpha * weighted_sum(rows, image_features, beta, c)]]

\* cls_acc (utils.py): 100 when the top-1 class of the logits is the target
ArgMax(logits) == {c \in Labels : \A d \in Labels : logits[d] <= logits[c]}
\* ------------------------------------------------------------------ telemetry
\* element counts stand for byte sizes (element_size * numel)
get_tensor_size(item, k) == IF k = 2 THEN 1 ELSE NumClasses

\* not isinstance(tensor, torch.Tensor): item[1] (the loss) is a tensor only if
\* the classifier returns one; embeddings and probability maps always are
not_a_tensor(item, k) == k = 2 /\ loss_kind # "tensor"

\* some get_tensor_size call of compute_real_cache_size raises ValueError
size_raises(cache) ==
    \E l \in DOMAIN cache : \E n \in 1 .. Len(cache[l]) :
        \E k \in 1 .. Len(cache[l][n]) : not_a_tensor(cache[l][n], k)

RECURSIVE bucket_size(_)
bucket_size(class_entries) ==
    IF class_entries = << >> THEN 0
    ELSE LET item == Head(class_entries)
         IN  get_tensor_size(item, 1)
             + (IF Len(item) = 3 THEN get_tensor_size(item, 2) + get_tensor_size(item, 3)
                                 ELSE get_tensor_size(item, 2))
             + bucket_size(Tail(class_entries))

RECURSIVE size_from(_, _)
size_from(cache, l) ==
    IF l >= NumClasses THEN 0
    ELSE (IF l \in DOMAIN cache THEN bucket_size(cache[l]) ELSE 0) + size_from(cache, l + 1)

compute_real_cache_size(cache) == size_from(cache, 0)

RECURSIVE SeqSum(_)
SeqSum(s) == IF s = << >> THEN 0 ELSE Head(s) + SeqSum(Tail(s))

\* ------------------------------------------------------------ configurations
\* The keys of a disabled side other than 'enabled' are never read, so one
\* representative configuration stands for all disabled ones.
PosConfigs ==
    {[enabled |-> TRUE, shot_capacity |-> k, alpha |-> 1, beta |-> 1] : k \in 0 .. MaxShot}
    \cup {[enabled |-> FALSE, shot_capacity |-> MaxShot, alpha |-> 1, beta |-> 1]}

NegConfigs ==
    {[enabled |-> TRUE, shot_capacity |-> k, alpha |-> 1, beta |-> 1,
      entropy_threshold |-> ew, mask_threshold |-> mw] :
        k \in 0 .. MaxShot, ew \in EntropyWindows, mw \in MaskWindows}
    \cup {[enabled |-> FALSE, shot_capacity |-> MaxShot, alpha |-> 1, beta |-> 1,
           entropy_threshold |-> Window(Rat(0, 1), Rat(1, 1)),
           mask_threshold |-> Window(Rat(0, 1), Rat(1, 1))]}

\* -------------------------------------------------------------- run_test_tda
InitWith(pos_cfgs, neg_cfgs, loss_kinds) ==
    /\ pos_cfg \in pos_cfgs
    /\ neg_cfg \in neg_cfgs
    /\ pos_enabled = NoValue /\ neg_enabled = NoValue
    /\ pos_params = NoValue /\ neg_params = NoValue
    /\ pos_cache = << >> /\ neg_cache = << >>
    /\ accuracies = << >>
    /\ i = 0
    /\ sample = NoValue
    /\ final_logits = NoValue
    /\ pos_keys = << >> /\ neg_keys = << >>
    /\ log = << >>
    /\ offered_pos = [l \in Labels |-> << >>]
    /\ offered_neg = [l \in Labels |-> << >>]
    /\ result = NoValue
    /\ loss_kind \in loss_kinds
    /\ pc = "unpack"
    /\ err = NoValue

\* the repository's classifier returns the loss as a tensor
Init == InitWith(PosConfigs, NegConfigs, {"tensor"})

PosKeys == {"shot_capacity", "alpha", "beta"}
NegKeys == {"shot_capacity", "alpha", "beta", "entropy_threshold", "mask_threshold"}

\* cfg[k] raises KeyError for some k of keys
key_error(cfg, keys) == \E k \in keys : k \notin DOMAIN cfg

\* the subscripts of lines 103-107, in order, raise KeyError
unpack_raises ==
    \/ key_error(pos_cfg, {"enabled"})
    \/ key_error(neg_cfg, {"enabled"})
    \/ pos_cfg.enabled /\ key_error(pos_cfg, PosKeys)
    \/ neg_cfg.enabled /\ key_error(neg_cfg, NegKeys)

Unpack_flag_ignored ==
    /\ pc = "unpack"
    /\ IF unpack_raises
       THEN /\ pc' = "error"
            /\ err' = "KeyError"
            /\ UNCHANGED <<pos_enabled, neg_enabled, pos_params, neg_params>>
       ELSE /\ pos_enabled' = TRUE
            /\ neg_enabled' = TRUE
            /\ pos_params' = [k \in PosKeys |-> pos_cfg[k]]
            /\ neg_params' = [k \in NegKeys |-> neg_cfg[k]]
            /\ pc' = "loop"
            /\ err' = err
    /\ UNCHANGED <<loss_kind, pos_cfg, neg_cfg, pos_cache, neg_cache, accuracies, i, sample,
                   final_logits, pos_keys, neg_keys, log, offered_pos, offered_neg,
                   result>>

\* lines 97-107
Unpack ==
    /\ pc = "unpack"
    /\ IF unpack_raises
       THEN /\ pc' = "error"
            /\ err' = "KeyError"
            /\ UNCHANGED <<pos_enabled, neg_enabled, pos_params, neg_params>>
       ELSE /\ pos_enabled' = pos_cfg.enabled
            /\ neg_enabled' = neg_cfg.enabled
            /\ pos_params' = IF pos_cfg.enabled THEN [k \in PosKeys |-> pos_cfg[k]]
                             ELSE NoValue
            /\ neg_params' = IF neg_cfg.enabled THEN [k \in NegKeys |-> neg_cfg[k]]
                             ELSE NoValue
            /\ pc' = "loop"
            /\ err' = err
    /\ UNCHANGED <<loss_kind, pos_cfg, neg_cfg, pos_cache, neg_cache, accuracies, i, sample,
                   final_logits, pos_keys, neg_keys, log, offered_pos, offered_neg,
                   result>>

\* lines 110-114: the loader yields the next image, the classifier runs on it
Classify ==
    /\ pc = "loop"
    /\ i < MaxSamples
    /\ \E pred \in Labels, loss \in Losses :
          sample' = get_clip_logits(i, pred, loss)
    /\ pc' = "update_pos"
    /\ UNCHANGED <<loss_kind, pos_cfg, neg_cfg, pos_enabled, neg_enabled, pos_params, neg_params,
                   pos_cache, neg_cache, accuracies, i, final_logits, pos_keys,
                   neg_keys, log, offered_pos, offered_neg, result, err>>

prop_entropy == get_entropy(sample.loss)

\* lines 116-117
UpdatePos ==
    /\ pc = "update_pos"
    /\ IF pos_enabled
       THEN /\ pos_cache' = update_cache(pos_cache, sample.pred,
                                         <<sample.image_features, sample.loss>>,
                                         pos_params.shot_capacity, FALSE)
            /\ offered_pos' = [offered_pos EXCEPT ![sample.pred] = Append(@, sample.loss)]
       ELSE UNCHANGED <<pos_cache, offered_pos>>
    /\ pc' = "update_neg"
    /\ UNCHANGED <<loss_kind, pos_cfg, neg_cfg, pos_enabled, neg_enabled, pos_params, neg_params,
                   neg_cache, accuracies, i, sample, final_logits, pos_keys, neg_keys,
                   log, offered_neg, result, err>>

neg_gate_inclusive ==
    /\ neg_enabled
    /\ ~RatLess(prop_entropy, neg_params.entropy_threshold.lower)
    /\ ~RatLess(neg_params.entropy_threshold.upper, prop_entropy)

\* neg_enabled and lower < prop_entropy < upper
neg_gate ==
    /\ neg_enabled
    /\ RatLess(neg_params.entropy_threshold.lower, prop_entropy)
    /\ RatLess(prop_entropy, neg_params.entropy_threshold.upper)

\* lines 119-120
UpdateNeg ==
    /\ pc = "update_neg"
    /\ IF neg_gate
       THEN /\ neg_cache' = update_cache(neg_cache, sample.pred,
                                         <<sample.image_features, sample.loss,
                                           sample.prob_map>>,
                                         neg_params.shot_capacity, TRUE)
            /\ offered_neg' = [offered_neg EXCEPT ![sample.pred] = Append(@, sample.loss)]
       ELSE UNCHANGED <<neg_cache, offered_neg>>
    /\ pc' = "score"
    /\ UNCHANGED <<loss_kind, pos_cfg, neg_cfg, pos_enabled, neg_enabled, pos_params, neg_params,
                   pos_cache, accuracies, i, sample, final_logits, pos_keys, neg_keys,
                   log, offered_pos, result, err>>

neg_lookup_unguarded == neg_enabled

\* if pos_enabled and pos_cache / if neg_enabled and neg_cache
pos_lookup == pos_enabled /\ pos_cache # << >>
neg_lookup == neg_enabled /\ neg_cache # << >>

VecAdd(a, b) == [c \in Labels |-> a[c] + b[c]]
VecSub(a, b) == [c \in Labels |-> a[c] - b[c]]

\* lines 122-130
Score ==
    /\ pc = "score"
    /\ LET pos_logits == IF pos_lookup
                         THEN compute_cache_logits(sample.image_features, pos_cache,
                                                   pos_params.alpha, pos_params.beta,
                                                   << >>)
                         ELSE NoValue
           neg_logits == IF neg_lookup
                         THEN compute_cache_logits(
                                  sample.image_features, neg_cache,
                                  neg_params.alpha, neg_params.beta,
                                  <<neg_params.mask_threshold.lower,
                                    neg_params.mask_threshold.upper>>)
                         ELSE NoValue
           after_pos == IF pos_lookup THEN VecAdd(sample.clip_logits, pos_logits.value)
                        ELSE sample.clip_logits
       IN  IF (pos_lookup /\ pos_logits.raised) \/ (neg_lookup /\ neg_logits.raised)
           THEN /\ pc' = "error"
                /\ err' = "RuntimeError"
                /\ UNCHANGED <<final_logits, pos_keys, neg_keys>>
           ELSE /\ final_logits' = IF neg_lookup THEN VecSub(after_pos, neg_logits.value)
                                   ELSE after_pos
                /\ pos_keys' = IF pos_lookup THEN pos_logits.cache_keys ELSE << >>
                /\ neg_keys' = IF neg_lookup THEN neg_logits.cache_keys ELSE << >>
                /\ pc' = "account"
                /\ err' = err
    /\ UNCHANGED <<loss_kind, pos_cfg, neg_cfg, pos_enabled, neg_enabled, pos_params, neg_params,
                   pos_cache, neg_cache, accuracies, i, sample, log, offered_pos,
                   offered_neg, result>>

\* lines 137-138; the target comes with the image but is first read here
Account ==
    /\ pc = "account"
    /\ \E target \in Labels, top \in ArgMax(final_logits) :
          accuracies' = Append(accuracies, IF top = target THEN 100 ELSE 0)
    /\ pc' = "telemetry"
    /\ UNCHANGED <<loss_kind, pos_cfg, neg_cfg, pos_enabled, neg_enabled, pos_params, neg_params,
                   pos_cache, neg_cache, i, sample, final_logits, pos_keys, neg_keys,
                   log, offered_pos, offered_neg, result, err>>

\* lines 143-155, then the next iteration
Telemetry_draining ==
    /\ pc = "telemetry"
    /\ log' = IF i % TelemetryEvery = 0
              THEN Append(log, [iteration |-> i,
                                pos_cache_size |-> compute_real_cache_size(pos_cache),
                                neg_cache_size |-> compute_real_cache_size(neg_cache),
                                accuracy |-> Rat(SeqSum(accuracies), Len(accuracies))])
              ELSE log
    /\ pos_cache' = IF i % TelemetryEvery = 0 THEN << >> ELSE pos_cache
    /\ neg_cache' = IF i % TelemetryEvery = 0 THEN << >> ELSE neg_cache
    /\ i' = i + 1
    /\ pc' = "loop"
    /\ UNCHANGED <<loss_kind, pos_cfg, neg_cfg, pos_enabled, neg_enabled, pos_params,
                   neg_params, accuracies, sample, final_logits, pos_keys, neg_keys,
                   offered_pos, offered_neg, result, err>>

Telemetry ==
    /\ pc = "telemetry"
    /\ IF i % TelemetryEvery = 0 /\ (size_raises(pos_cache) \/ size_raises(neg_cache))
       THEN /\ pc' = "error"
            /\ err' = "ValueError"
            /\ UNCHANGED <<log, i>>
       ELSE /\ log' = IF i % TelemetryEvery = 0
                      THEN Append(log,
                               [iteration |-> i,
                                pos_cache_size |-> compute_real_cache_size(pos_cache),
                                neg_cache_size |-> compute_real_cache_size(neg_cache),
                                accuracy |-> Rat(SeqSum(accuracies), Len(accuracies))])
                      ELSE log
            /\ i' = i + 1
            /\ pc' = "loop"
            /\ err' = err
    /\ UNCHANGED <<loss_kind, pos_cfg, neg_cfg, pos_enabled, neg_enabled, pos_params, neg_params,
                   pos_cache, neg_cache, accuracies, sample, final_logits, pos_keys,
                   neg_keys, offered_pos, offered_neg, result>>

\* lines 157-168: the stream is exhausted after i samples (len(loader) = i)
Finish ==
    /\ pc = "loop"
    /\ IF i = 0
       THEN /\ pc' = "error"
            /\ err' = "ZeroDivisionError"
            /\ UNCHANGED <<log, result>>
       ELSE IF size_raises(pos_cache) \/ size_raises(neg_cache)
       THEN /\ pc' = "error"
            /\ err' = "ValueError"
            /\ UNCHANGED <<log, result>>
       ELSE /\ log' = Append(log, [iteration |-> "final",
                                   pos_cache_size |-> compute_real_cache_size(pos_cache),
                                   neg_cache_size |-> compute_real_cache_size(neg_cache),
                                   accuracy |-> Rat(SeqSum(accuracies), Len(accuracies))])
            /\ result' = Rat(SeqSum(accuracies), Len(accuracies))
            /\ pc' = "done"
            /\ err' = err
    /\ UNCHANGED <<loss_kind, pos_cfg, neg_cfg, pos_enabled, neg_enabled, pos_params, neg_params,
                   pos_cache, neg_cache, accuracies, i, sample, final_logits, pos_keys,
                   neg_keys, offered_pos, offered_neg>>

Next ==
    \/ Unpack
    \/ Classify
    \/ UpdatePos
    \/ UpdateNeg
    \/ Score
    \/ Account
    \/ Telemetry
    \/ Finish

Spec == Init /\ [][Next]_vars
\* ------------------------------------------ a classifier with float losses
\* The classifier interface types the loss as a float; a classifier returning
\* a python float instead of a tensor is the other adapter run_test_tda can be
\* given.  Valid configurations with the largest capacity, both kinds of loss.
ValidWindow == Window(Rat(0, 1), Rat(1, 1))
InitTelemetry ==
    InitWith({c \in PosConfigs : c.shot_capacity = MaxShot},
             {c \in NegConfigs : /\ c.shot_capacity = MaxShot
                                 /\ c.entropy_threshold = ValidWindow
                                 /\ c.mask_threshold = ValidWindow},
             {"tensor", "float"})

SpecTelemetry == InitTelemetry /\ [][Next]_vars

\* ------------------------------------------ configurations lacking one key
\* The run on configuration dicts from which one key may be absent.
without_cfg_key(cfg, missing) == [k \in DOMAIN cfg \ missing |-> cfg[k]]

MaybeLacking(cfgs) ==
    {without_cfg_key(c, missing) :
        c \in cfgs, missing \in {{}} \cup {{k} : k \in NegKeys \cup {"enabled"}}}

InitConfig ==
    InitWith(MaybeLacking({c \in PosConfigs : c.shot_capacity = MaxShot}),
             MaybeLacking({c \in NegConfigs : /\ c.shot_capacity = MaxShot
                                              /\ c.entropy_threshold = ValidWindow
                                              /\ c.mask_threshold = ValidWindow}),
             {"tensor"})

SpecConfig == InitConfig /\ [][Next]_vars

\* ------------------------------------------------- update_cache on its own
\* A caller other than the loop: any sequence of update_cache calls on one
\* cache, with any labels and losses and no entropy gate.  The cache is the
\* positive one (items without prob_map) or the negative one (items with it),
\* whichever side the configuration enables; i counts the calls made.
ParamsOf(cfg, keys) == IF cfg.enabled THEN [k \in keys |-> cfg[k]] ELSE NoValue

InitCache ==
    /\ pos_cfg \in PosConfigs
    /\ neg_cfg \in {c \in NegConfigs :
                      /\ c.entropy_threshold = Window(Rat(0, 1), Rat(1, 1))
                      /\ c.mask_threshold = Window(Rat(0, 1), Rat(1, 1))}
    /\ pos_cfg.enabled # neg_cfg.enabled
    /\ pos_enabled = pos_cfg.enabled /\ neg_enabled = neg_cfg.enabled
    /\ pos_params = ParamsOf(pos_cfg, {"shot_capacity", "alpha", "beta"})
    /\ neg_params = ParamsOf(neg_cfg, {"shot_capacity", "alpha", "beta",
                                       "entropy_threshold", "mask_threshold"})
    /\ pos_cache = << >> /\ neg_cache = << >>
    /\ accuracies = << >>
    /\ i = 0
    /\ sample = NoValue
    /\ final_logits = NoValue
    /\ pos_keys = << >> /\ neg_keys = << >>
    /\ log = << >>
    /\ offered_pos = [l \in Labels |-> << >>]
    /\ offered_neg = [l \in Labels |-> << >>]
    /\ result = NoValue
    /\ loss_kind = "tensor"
    /\ pc = "offer"
    /\ err = NoValue

\* the arguments of the next call: a label and an item
OfferItem ==
    /\ pc = "offer"
    /\ i < MaxSamples
    /\ \E pred \in Labels, loss \in Losses : sample' = get_clip_logits(i, pred, loss)
    /\ pc' = "apply"
    /\ UNCHANGED <<loss_kind, pos_cfg, neg_cfg, pos_enabled, neg_enabled, pos_params, neg_params,
                   pos_cache, neg_cache, accuracies, i, final_logits, pos_keys,
                   neg_keys, log, offered_pos, offered_neg, result, err>>

\* lines 26-37, called as on line 117 or as on line 120
ApplyUpdate ==
    /\ pc = "apply"
    /\ IF pos_enabled
       THEN /\ pos_cache' = update_cache(pos_cache, sample.pred,
                                         <<sample.image_features, sample.loss>>,
                                         pos_params.shot_capacity, FALSE)
            /\ offered_pos' = [offered_pos EXCEPT ![sample.pred] = Append(@, sample.loss)]
            /\ UNCHANGED <<neg_cache, offered_neg>>
       ELSE /\ neg_cache' = update_cache(neg_cache, sample.pred,
                                         <<sample.image_features, sample.loss,
                                           sample.prob_map>>,
                                         neg_params.shot_capacity, TRUE)
            /\ offered_neg' = [offered_neg EXCEPT ![sample.pred] = Append(@, sample.loss)]
            /\ UNCHANGED <<pos_cache, offered_pos>>
    /\ i' = i + 1
    /\ pc' = "offer"
    /\ UNCHANGED <<loss_kind, pos_cfg, neg_cfg, pos_enabled, neg_enabled, pos_params, neg_params,
                   accuracies, sample, final_logits, pos_keys, neg_keys, log, result,
                   err>>

NextCache ==
    \/ OfferItem
    \/ ApplyUpdate

SpecCache == InitCache /\ [][NextCache]_vars

\* ------------------------------------------- compute_cache_logits on its own
\* The scoring step of lines 122-130 on any cache of at most MaxEntries
\* entries: every entry is what the classifier returns for some image, stored
\* under any label, the cache being filled by update_cache with room for all.
\* One side is enabled; the query is a further image. The positive scorer
\* reads no loss, so positive entries take the two extreme losses only.
ScoreEntries(losses) ==
    UNION {[1 .. n -> Labels \X Labels \X losses] : n \in 0 .. MaxEntries}

RECURSIVE cache_from(_, _, _)
cache_from(entries, n, include_prob_map) ==
    IF n = 0 THEN << >>
    ELSE LET out == get_clip_logits(n - 1, entries[n][2], entries[n][3])
         IN  update_cache(cache_from(entries, n - 1, include_prob_map), entries[n][1],
                          IF include_prob_map
                          THEN <<out.image_features, out.loss, out.prob_map>>
                          ELSE <<out.image_features, out.loss>>,
                          MaxEntries, include_prob_map)

ScorePosConfigs ==
    {[enabled |-> TRUE, shot_capacity |-> MaxEntries, alpha |-> a, beta |-> b] :
        a \in {1, 2}, b \in {1, 2}}
ScoreNegConfigs ==
    {[enabled |-> TRUE, shot_capacity |-> MaxEntries, alpha |-> 2, beta |-> 1,
      entropy_threshold |-> ValidWindow, mask_threshold |-> mw] :
        mw \in {ValidWindow, Window(Rat(0, 1), Rat(1, 2)), Window(Rat(1, 2), Rat(1, 1))}}

InitScore ==
    /\ pos_cfg \in ScorePosConfigs \cup {c \in PosConfigs : ~c.enabled}
    /\ neg_cfg \in ScoreNegConfigs \cup {c \in NegConfigs : ~c.enabled}
    /\ pos_cfg.enabled # neg_cfg.enabled
    /\ pos_enabled = pos_cfg.enabled /\ neg_enabled = neg_cfg.enabled
    /\ pos_params = ParamsOf(pos_cfg, PosKeys)
    /\ neg_params = ParamsOf(neg_cfg, NegKeys)
    /\ \E entries \in ScoreEntries(IF pos_cfg.enabled THEN {0, MaxLoss} ELSE Losses) :
          /\ pos_cache = IF pos_cfg.enabled
                         THEN cache_from(entries, Len(entries), FALSE) ELSE << >>
          /\ neg_cache = IF neg_cfg.enabled
                         THEN cache_from(entries, Len(entries), TRUE) ELSE << >>
    /\ accuracies = << >>
    /\ i = MaxEntries
    /\ \E pred \in Labels : sample = get_clip_logits(MaxEntries, pred, 0)
    /\ final_logits = NoValue
    /\ pos_keys = << >> /\ neg_keys = << >>
    /\ log = << >>
    /\ offered_pos = [l \in Labels |-> << >>]
    /\ offered_neg = [l \in Labels |-> << >>]
    /\ result = NoValue
    /\ loss_kind = "tensor"
    /\ pc = "score"
    /\ err = NoValue

NextScore == Score

SpecScore == InitScore /\ [][NextScore]_vars

\* ===================================================================== claims
Caches == <<pos_cache, neg_cache>>
Capacity(side) == IF side = 1 THEN pos_cfg.shot_capacity ELSE neg_cfg.shot_capacity
Offered(side) == IF side = 1 THEN offered_pos ELSE offered_neg
Bucket(cache, l) == IF l \in DOMAIN cache THEN cache[l] ELSE << >>
LossesOf(bucket) == [k \in 1 .. Len(bucket) |-> bucket[k][2]]
IdsOf(bucket) == {bucket[k][1].id : k \in 1 .. Len(bucket)}
CacheIds(cache) == UNION {IdsOf(cache[l]) : l \in DOMAIN cache}
KeyIds(keys) == {keys[k].id : k \in 1 .. Len(keys)}

RECURSIVE TotalFrom(_, _)
TotalFrom(cache, l) ==
    IF l >= NumClasses THEN 0 ELSE Len(Bucket(cache, l)) + TotalFrom(cache, l + 1)
TotalEntries(cache) == TotalFrom(cache, 0)

RECURSIVE InsertInt(_, _)
InsertInt(s, x) ==
    IF s = << >> THEN <<x>>
    ELSE IF x < Head(s) THEN <<x>> \o s
    ELSE <<Head(s)>> \o InsertInt(Tail(s), x)
RECURSIVE SortInts(_)
SortInts(s) == IF s = << >> THEN << >> ELSE InsertInt(SortInts(Tail(s)), Head(s))
Min(a, b) == IF a < b THEN a ELSE b
IsMaxLoss(bucket, m) ==
    /\ \E k \in 1 .. Len(bucket) : bucket[k][2] = m
    /\ \A k \in 1 .. Len(bucket) : bucket[k][2] <= m

\* this step calls update_cache on the positive / negative cache
CallsPos == pc \in {"update_pos", "apply"} /\ pos_enabled
CallsNeg == (pc = "update_neg" /\ neg_gate) \/ (pc = "apply" /\ neg_enabled)

\* the sample just went through update_cache on the positive / negative cache
JustUpdatedPos == (pc = "update_neg" \/ (pc = "offer" /\ i > 0)) /\ pos_enabled
JustUpdatedNeg == (pc = "score" /\ neg_gate) \/ (pc = "offer" /\ i > 0 /\ neg_enabled)
OwnId == sample.image_features.id

\* C1 -- capacity invariant: with a capacity k >= 1, every bucket of the cache
\* has at most k entries after each update_cache call.
C1_CapacityInvariant ==
    \A side \in {1, 2} :
        Capacity(side) >= 1 =>
            \A l \in DOMAIN Caches[side] : Len(Caches[side][l]) <= Capacity(side)

\* an update arrived at a full bucket, and the bucket is still exactly full
C1_Witness ==
    /\ JustUpdatedPos
    /\ Capacity(1) >= 1
    /\ Len(offered_pos[sample.pred]) > Capacity(1)
    /\ Len(pos_cache[sample.pred]) = Capacity(1)

\* C2 -- keep-k-smallest: with a capacity k >= 1, the multiset of losses in a
\* label's bucket is the multiset of the min(k, n) smallest of the n losses
\* offered for that label so far.
C2_KeepKSmallest ==
    \A side \in {1, 2} : \A l \in Labels :
        Capacity(side) >= 1 =>
            LET off == SortInts(Offered(side)[l])
            IN  SortInts(LossesOf(Bucket(Caches[side], l)))
                    = SubSeq(off, 1, Min(Capacity(side), Len(off)))

\* capacity 2, losses offered in descending order 2, 1, 0: the bucket is [0, 1]
C2_Witness ==
    /\ JustUpdatedPos
    /\ Capacity(1) = 2
    /\ offered_pos[sample.pred] = <<2, 1, 0>>
    /\ LossesOf(pos_cache[sample.pred]) = <<0, 1>>

\* C3 -- ordering invariant: after every update_cache call every bucket is
\* sorted ascending by loss, so its last element has the maximum loss.
C3_OrderingInvariant ==
    \A side \in {1, 2} : \A l \in DOMAIN Caches[side] :
        LET b == Caches[side][l]
        IN  /\ \A k \in 1 .. (Len(b) - 1) : b[k][2] <= b[k + 1][2]
            /\ IsMaxLoss(b, b[Len(b)][2])

\* the new item was appended or put in the last slot and sorted to the front
C3_Witness ==
    /\ JustUpdatedPos
    /\ Len(pos_cache[sample.pred]) >= 2
    /\ pos_cache[sample.pred][1][1].id = OwnId
    /\ pos_cache[sample.pred][1][2] < pos_cache[sample.pred][2][2]

\* the update_cache call of this step, on one cache, leaves the label's bucket
\* as it was when the bucket is full and the loss is at least its maximum
RejectionOn(cache, cache_after, called, shot_capacity) ==
    (called /\ sample.pred \in DOMAIN cache
        /\ Len(cache[sample.pred]) = shot_capacity
        /\ \E m \in Losses : IsMaxLoss(cache[sample.pred], m) /\ sample.loss >= m)
    => (sample.pred \in DOMAIN cache_after
        /\ cache_after[sample.pred] = cache[sample.pred])

\* C4 -- rejection: an update for a label whose bucket is full with maximum
\* loss m, with a loss >= m (equal included), leaves the bucket unchanged:
\* same entries in the same order.
C4_Rejection ==
    [][/\ RejectionOn(pos_cache, pos_cache', CallsPos, Capacity(1))
       /\ RejectionOn(neg_cache, neg_cache', CallsNeg, Capacity(2))]_vars

\* a loss equal to the maximum of a full bucket was offered and not stored
C4_Witness ==
    /\ JustUpdatedNeg
    /\ Len(neg_cache[sample.pred]) = Capacity(2)
    /\ IsMaxLoss(neg_cache[sample.pred], sample.loss)
    /\ neg_cache[sample.pred][1][2] < sample.loss
    /\ OwnId \notin IdsOf(neg_cache[sample.pred])

\* lower < loss / log(num_classes) < upper, on the configured window
InEntropyWindow ==
    /\ neg_cfg.entropy_threshold.lower.num * MaxLoss
          < sample.loss * neg_cfg.entropy_threshold.lower.den
    /\ sample.loss * neg_cfg.entropy_threshold.upper.den
          < neg_cfg.entropy_threshold.upper.num * MaxLoss

\* C5 -- entropy gating: a sample changes the negative cache only if the
\* negative side is enabled and lower < normalized entropy < upper; a sample
\* at or beyond a bound leaves the negative cache unchanged whatever its loss.
C5_EntropyGating ==
    [][neg_cache' # neg_cache =>
          (pc = "update_neg" /\ neg_cfg.enabled /\ InEntropyWindow)]_vars

\* a sample whose entropy equals the lower bound, with a loss below every
\* stored loss of a bucket that has free room, was not stored
C5_Witness ==
    /\ pc = "score"
    /\ neg_cfg.enabled
    /\ sample.loss * neg_cfg.entropy_threshold.lower.den
          = neg_cfg.entropy_threshold.lower.num * MaxLoss
    /\ sample.pred \in DOMAIN neg_cache
    /\ Len(neg_cache[sample.pred]) < Capacity(2)
    /\ \A k \in 1 .. Len(neg_cache[sample.pred]) :
          sample.loss < neg_cache[sample.pred][k][2]
    /\ OwnId \notin CacheIds(neg_cache)

\* C6 (as claimed) -- when sample i is scored, the entry written for sample i
\* is not among the entries of the cache it is scored against.
C6_NoSelfReinforcement ==
    pc = "account" =>
        /\ OwnId \notin KeyIds(pos_keys)
        /\ OwnId \notin KeyIds(neg_keys)

\* C6 (amended) -- update precedes scoring: an entry stored for sample i is
\* already among the keys its cache is scored with on sample i itself.
C6_OwnEntryScored ==
    pc = "account" =>
        /\ OwnId \in CacheIds(pos_cache) => sample.image_features \in
               {pos_keys[k] : k \in 1 .. Len(pos_keys)}
        /\ OwnId \in CacheIds(neg_cache) => sample.image_features \in
               {neg_keys[k] : k \in 1 .. Len(neg_keys)}

\* sample i was stored in both caches and scored against both
C6_Witness ==
    /\ pc = "account"
    /\ OwnId \in CacheIds(pos_cache) /\ OwnId \in KeyIds(pos_keys)
    /\ OwnId \in CacheIds(neg_cache) /\ OwnId \in KeyIds(neg_keys)
    /\ OwnId >= 1

ZeroLogits == [c \in Labels |-> 0]
PosAdjustment ==
    IF pos_cfg.enabled /\ TotalEntries(pos_cache) > 0
    THEN compute_cache_logits(sample.image_features, pos_cache, pos_cfg.alpha,
                              pos_cfg.beta, << >>).value
    ELSE ZeroLogits
NegAdjustment ==
    IF neg_cfg.enabled /\ TotalEntries(neg_cache) > 0
    THEN compute_cache_logits(sample.image_features, neg_cache, neg_cfg.alpha,
                              neg_cfg.beta,
                              <<neg_cfg.mask_threshold.lower,
                                neg_cfg.mask_threshold.upper>>).value
    ELSE ZeroLogits

\* C7 -- empty-cache skip: compute_cache_logits is never invoked on a cache
\* without entries; when a side's cache is empty at scoring time, final_logits
\* is the baseline adjusted only by the other side.
C7_EmptyCacheSkip ==
    /\ err # "RuntimeError"
    /\ pc = "account" =>
        /\ TotalEntries(pos_cache) = 0 =>
              /\ pos_keys = << >>
              /\ final_logits = VecSub(sample.clip_logits, NegAdjustment)
        /\ TotalEntries(neg_cache) = 0 =>
              /\ neg_keys = << >>
              /\ final_logits = VecAdd(sample.clip_logits, PosAdjustment)

\* the negative side is enabled but its cache is empty: only the positive
\* side has moved the logits
C7_Witness ==
    /\ pc = "account"
    /\ neg_cfg.enabled /\ TotalEntries(neg_cache) = 0 /\ neg_keys = << >>
    /\ pos_keys # << >>
    /\ final_logits # sample.clip_logits

\* C8 -- memory bound: with capacities k_p, k_n >= 1 the two caches together
\* never hold more than NumClasses * (k_p + k_n) entries.
C8_MemoryBound ==
    (Capacity(1) >= 1 /\ Capacity(2) >= 1) =>
        TotalEntries(pos_cache) + TotalEntries(neg_cache)
            <= NumClasses * (Capacity(1) + Capacity(2))

\* every bucket of both caches is full and more entries were offered than fit
C8_Witness ==
    /\ Capacity(1) >= 1 /\ Capacity(2) >= 1
    /\ pos_cfg.enabled /\ neg_cfg.enabled
    /\ TotalEntries(pos_cache) + TotalEntries(neg_cache)
          = NumClasses * (Capacity(1) + Capacity(2))
    /\ \E l \in Labels : Len(offered_pos[l]) > Capacity(1)

WindowMalformed(w) == ~RatLess(w.lower, w.upper)
InvalidConfig ==
    \/ pos_cfg.enabled /\ pos_cfg.shot_capacity <= 0
    \/ neg_cfg.enabled /\ neg_cfg.shot_capacity <= 0
    \/ WindowMalformed(neg_cfg.entropy_threshold)
    \/ WindowMalformed(neg_cfg.mask_threshold)

\* C9 -- InvalidConfig: a run with an enabled side of capacity <= 0 or a
\* malformed negative threshold window fails before the first sample; no entry
\* is ever stored in a cache whose configured capacity is 0.
C9_InvalidConfigRejected ==
    InvalidConfig =>
        /\ pc \in {"unpack", "error"}
        /\ i = 0 /\ sample = NoValue
        /\ pos_cache = << >> /\ neg_cache = << >>

SameBucket(cache, cache_after, l) ==
    /\ (l \in DOMAIN cache_after) <=> (l \in DOMAIN cache)
    /\ l \in DOMAIN cache => cache_after[l] = cache[l]

\* C10 -- update frame: an update_cache call for label L on one cache changes
\* at most the bucket of L in that cache; the other labels' buckets and the
\* whole other cache are unchanged.
C10_UpdateFrame ==
    [][/\ pc = "update_pos" =>
            /\ neg_cache' = neg_cache
            /\ \A l \in Labels \ {sample.pred} : SameBucket(pos_cache, pos_cache', l)
       /\ pc = "update_neg" =>
            /\ pos_cache' = pos_cache
            /\ \A l \in Labels \ {sample.pred} : SameBucket(neg_cache, neg_cache', l)]_vars

\* the negative cache took the sample while another label has a bucket in it
\* and the positive cache is populated
C10_Witness ==
    /\ JustUpdatedNeg
    /\ OwnId \in CacheIds(neg_cache)
    /\ \E l \in Labels \ {sample.pred} : l \in DOMAIN neg_cache
    /\ pos_cache # << >>
\* C11 -- telemetry error isolation: a telemetry size computation that meets
\* a stored field that is not a tensor fails alone; the run is not aborted by
\* it, the remaining samples are processed and the accuracy is returned.
C11_TelemetryErrorIsolated ==
    pc = "error" => err # "ValueError"

\* C12 -- telemetry is read-only: emitting a telemetry record (periodic or at
\* stream end) leaves both caches and the list of accuracies unchanged.
C12_TelemetryReadOnly ==
    [][(pc = "telemetry" \/ (pc = "loop" /\ pc' # "update_pos")) =>
          /\ pos_cache' = pos_cache
          /\ neg_cache' = neg_cache
          /\ accuracies' = accuracies]_vars

\* the run has written the record of iteration 0 and the final record, both
\* over populated caches
C12_Witness ==
    /\ pc = "done"
    /\ Len(log) = 2
    /\ log[1].pos_cache_size > 0 /\ log[2].neg_cache_size > log[1].neg_cache_size
    /\ pos_cache # << >> /\ neg_cache # << >>
    /\ Len(accuracies) >= 2

\* C13 -- full-stream result: for every finite stream, the empty one included,
\* and valid configuration the run ends normally, having accounted each sample
\* once, and returns the mean of the per-sample accuracies.
C13_FullStreamResult ==
    ~InvalidConfig =>
        /\ pc # "error"
        /\ pc = "done" =>
              /\ Len(accuracies) = i
              /\ result = Rat(SeqSum(accuracies), i)
RECURSIVE EntriesFrom(_, _)
EntriesFrom(cache, l) ==
    IF l >= NumClasses THEN << >> ELSE Bucket(cache, l) \o EntriesFrom(cache, l + 1)

\* kernel weight of one stored entry for the sample being scored
WeightOf(entry, beta) == kernel(affinity(sample.image_features, entry[1]), beta)

RECURSIVE WeightSum(_, _)
WeightSum(entries, beta) ==
    IF entries = << >> THEN 0
    ELSE WeightOf(Head(entries), beta) + WeightSum(Tail(entries), beta)

PosOnly == pc = "account" /\ pos_cfg.enabled /\ ~neg_cfg.enabled
NegOnly == pc = "account" /\ neg_cfg.enabled /\ ~pos_cfg.enabled

\* C14 -- positive scoring: the adjustment of class c is alpha times the sum
\* of the kernel weights of exactly the entries of bucket c; a class without
\* a bucket gets 0 and no entry contributes to another class than its label.
C14_PositiveScoring ==
    PosOnly =>
        \A c \in Labels :
            final_logits[c] - sample.clip_logits[c]
                = pos_cfg.alpha * WeightSum(Bucket(pos_cache, c), pos_cfg.beta)

\* one bucket holds a key equal to the query and a key orthogonal to it, and
\* another class has no bucket and keeps its baseline logit
C14_Witness ==
    /\ PosOnly
    /\ \E c \in DOMAIN pos_cache :
          /\ Len(pos_cache[c]) = 2
          /\ WeightOf(pos_cache[c][1], pos_cfg.beta) # WeightOf(pos_cache[c][2], pos_cfg.beta)
          /\ final_logits[c] > sample.clip_logits[c]
    /\ \E d \in Labels : d \notin DOMAIN pos_cache /\ final_logits[d] = sample.clip_logits[d]

\* mask_threshold.lower < p_c < mask_threshold.upper for the entry's stored p_c
Masked(entry, c) ==
    /\ neg_cfg.mask_threshold.lower.num * entry[3][c].den
          < entry[3][c].num * neg_cfg.mask_threshold.lower.den
    /\ entry[3][c].num * neg_cfg.mask_threshold.upper.den
          < neg_cfg.mask_threshold.upper.num * entry[3][c].den

RECURSIVE MaskedWeightSum(_, _)
MaskedWeightSum(entries, c) ==
    IF entries = << >> THEN 0
    ELSE (IF Masked(Head(entries), c) THEN WeightOf(Head(entries), neg_cfg.beta) ELSE 0)
         + MaskedWeightSum(Tail(entries), c)

\* C15 -- negative mask: every stored entry, whatever label it is stored
\* under, contributes its kernel weight to class c exactly when
\* mask_threshold.lower < p_c < mask_threshold.upper; p_c equal to a bound
\* contributes 0.
C15_NegativeMask ==
    NegOnly =>
        \A c \in Labels :
            sample.clip_logits[c] - final_logits[c]
                = neg_cfg.alpha * MaskedWeightSum(EntriesFrom(neg_cache, 0), c)

\* two entries under one label: the stored probability of class c equals a
\* bound of the window for one (no contribution) and lies inside for the other
C15_Witness ==
    /\ NegOnly
    /\ \E l \in DOMAIN neg_cache : \E c \in Labels :
          /\ Len(neg_cache[l]) = 2
          /\ c # l
          /\ Masked(neg_cache[l][2], c)
          /\ ~Masked(neg_cache[l][1], c)
          /\ \/ neg_cache[l][1][3][c] = neg_cfg.mask_threshold.lower
             \/ neg_cache[l][1][3][c].num * neg_cfg.mask_threshold.upper.den
                   = neg_cfg.mask_threshold.upper.num * neg_cache[l][1][3][c].den
          /\ sample.clip_logits[c] - final_logits[c]
                = neg_cfg.alpha * WeightOf(neg_cache[l][2], neg_cfg.beta)
\* C16 -- disabled side: the cache of a side whose configuration has
\* enabled = false is empty at every step of the run, and the final logits of
\* every sample are the baseline adjusted by the other side alone.
C16_DisabledSide ==
    /\ ~pos_cfg.enabled =>
          /\ pos_cache = << >>
          /\ pc = "account" =>
                /\ pos_keys = << >>
                /\ final_logits = VecSub(sample.clip_logits, NegAdjustment)
    /\ ~neg_cfg.enabled =>
          /\ neg_cache = << >>
          /\ pc = "account" =>
                /\ neg_keys = << >>
                /\ final_logits = VecAdd(sample.clip_logits, PosAdjustment)

\* the last sample of a run with the positive side disabled has been scored
\* and the negative side has changed its logits
C16_Witness ==
    /\ pc = "account"
    /\ i = MaxSamples - 1
    /\ ~pos_cfg.enabled /\ neg_cfg.enabled
    /\ neg_cache # << >>
    /\ final_logits # sample.clip_logits
MissingKey ==
    \/ key_error(pos_cfg, PosKeys \cup {"enabled"})
    \/ key_error(neg_cfg, NegKeys \cup {"enabled"})

\* C17 -- missing configuration key: when a side's configuration lacks one of
\* enabled, shot_capacity, alpha, beta (and entropy_threshold, mask_threshold
\* on the negative side) the run never gets past the unpacking of lines
\* 102-107: it ends there with KeyError, no sample classified, both caches
\* still empty.
C17_MissingKeyFatal ==
    MissingKey =>
        /\ pc \in {"unpack", "error"}
        /\ pc = "error" => err = "KeyError"
        /\ sample = NoValue
        /\ pos_cache = << >> /\ neg_cache = << >>
BucketKept(cache, cache_after) ==
    \A l \in DOMAIN cache :
        /\ l \in DOMAIN cache_after
        /\ Len(cache_after[l]) >= Len(cache[l])

\* C18 -- bucket lifetime: a label has a bucket in a cache exactly when an
\* update for that label has been applied to that cache; a bucket is never
\* empty, and no step removes a bucket or shortens one.
C18_BucketLifetime ==
    /\ [](\A side \in {1, 2} : \A l \in Labels :
             /\ l \in DOMAIN Caches[side] <=> Len(Offered(side)[l]) >= 1
             /\ l \in DOMAIN Caches[side] => Len(Caches[side][l]) >= 1)
    /\ [][BucketKept(pos_cache, pos_cache') /\ BucketKept(neg_cache, neg_cache')]_vars

\* every update of the run went to one label: its bucket is there, having
\* turned items away, and the label never updated has no bucket
C18_Witness ==
    /\ JustUpdatedPos
    /\ Len(offered_pos[sample.pred]) = MaxSamples
    /\ Len(pos_cache[sample.pred]) >= 1
    /\ Len(pos_cache[sample.pred]) < MaxSamples
    /\ \E d \in Labels : d \notin DOMAIN pos_cache /\ offered_pos[d] = << >>

\* C19 -- with the positive side enabled the positive cache is non-empty at
\* the scoring step of every sample, the first included: the guard of line
\* 126 holds and compute_cache_logits is called on the positive cache.
C19_PositiveAlwaysScored ==
    pos_cfg.enabled =>
        /\ pc = "score" => pos_cache # << >> /\ pos_lookup
        /\ pc = "account" => pos_keys # << >>

\* the first sample of a run has been scored against its own entry
C19_Witness ==
    /\ pc = "account"
    /\ i = 0
    /\ pos_cfg.enabled
    /\ KeyIds(pos_keys) = {OwnId}
    /\ final_logits # sample.clip_logits

FullBucketStep(cache, cache_after, called, shot_capacity) ==
    \A l \in DOMAIN cache :
        (shot_capacity >= 1 /\ Len(cache[l]) = shot_capacity) =>
            /\ l \in DOMAIN cache_after
            /\ Len(cache_after[l]) = shot_capacity
            /\ \A m \in Losses : \A n \in Losses :
                  (IsMaxLoss(cache[l], m) /\ IsMaxLoss(cache_after[l], n)) =>
                      /\ n <= m
                      /\ n < m =>
                            /\ called /\ sample.pred = l /\ sample.loss < m
                            /\ OwnId \in IdsOf(cache_after[l])
                            /\ cache[l][shot_capacity][1].id \notin IdsOf(cache_after[l])
                            /\ \A k \in 1 .. (shot_capacity - 1) :
                                  cache[l][k][1].id \in IdsOf(cache_after[l])

\* C20 -- a full bucket (capacity k >= 1) stays full and its maximum loss
\* never increases in a step; the maximum decreases only in an update_cache
\* call that puts the new item in place of the bucket's last element.
C20_FullStaysFull ==
    [][/\ FullBucketStep(pos_cache, pos_cache', CallsPos, Capacity(1))
       /\ FullBucketStep(neg_cache, neg_cache', CallsNeg, Capacity(2))]_vars

\* capacity 2, losses 1, 3, 2 offered for one label: the full bucket [1, 3]
\* became [1, 2]
C20_Witness ==
    /\ JustUpdatedPos
    /\ Capacity(1) = 2
    /\ offered_pos[sample.pred] = <<1, 3, 2>>
    /\ LossesOf(pos_cache[sample.pred]) = <<1, 2>>
====
